---- MODULE Spec2Model ----
(***************************************************************************)
(* Kinematics and axis-separated collision resolution of the platformer    *)
(* (src/main.js, the most complete iteration).                             *)
(*                                                                         *)
(* Numbers.  Every length, position and velocity is an integer count of    *)
(* hundredths of a pixel (Scale units per pixel), so that the separating   *)
(* bias 0.01 of the resolver is the integer Epsilon = 1.  Floating-point   *)
(* rounding of the source's doubles is not modelled.                       *)
(*                                                                         *)
(* Control.  JavaScript runs every callback to completion, so the key      *)
(* handlers and the animation-frame callback never interleave.  pc is the  *)
(* position inside Player.update: 0 when no update is running, i in 1..5   *)
(* when statement i of update is the next one to run.  pending counts the  *)
(* animation-frame callbacks that are requested and have not run yet.      *)
(* call is the Vector2D call that SpecVector follows; the specifications   *)
(* of the game leave it at noCall.                                         *)
(***************************************************************************)
EXTENDS Integers, Sequences, FiniteSets

VARIABLES player, blocks, pc, pending, call

vars == <<player, blocks, pc, pending, call>>

(***************************************************************************)
(* Bounds of the model, in whole pixels / tiles.                           *)
(***************************************************************************)
\* tile edge of the level grid, in pixels (64 in the level table)
TileWidthPx == 4
\* columns and rows of the level grid (16 x 9 in the level table)
XCount == 3
YCount == 4
\* player hitbox, speed and jump arguments of GAME.start, in pixels
PlayerWidthPx == 2
PlayerHeightPx == 2
SpeedFactorPx == 2
JumpFactorPx == 6
\* frames are explored while the body is at most this far outside the canvas
MarginPx == 3
\* number of frames / repeated calls unrolled by the multi-step properties
MaxRepeat == 3

\* sprite sheets: frames of the idle and of the running images, the
\* animation interval and the longest frame time, in ticks
IdleFrames == 2
RunFrames == 3
AnimationTimer == 3
MaxDeltaTime == 2

\* the components of the vectors of the Vector2D calls are the integers and
\* the tenths of at most this magnitude
MaxComponent == 3

(***************************************************************************)
(* Program constants.                                                      *)
(***************************************************************************)
Scale == 100
Epsilon == 1
GravityPx == 1
Lives == 3
HeartSpacingPx == 22
FlagCollision == 292
FlagSpawn == 267
FlagDoor == 290

Vector2D(x, y) == [x |-> x, y |-> y]

add(a, b) == Vector2D(a.x + b.x, a.y + b.y)

multiply(v, scalar) == Vector2D(v.x * scalar, v.y * scalar)

(***************************************************************************)
(* World.  The canvas is given the size of the background image, so the    *)
(* ratios xRatio = canvas.width / sw and yRatio = canvas.height / sh are   *)
(* kept as the fractions canvasWidth / imageSw and canvasHeight / imageSh. *)
(***************************************************************************)
imageSw == XCount * TileWidthPx * Scale
imageSh == YCount * TileWidthPx * Scale
canvasWidth == imageSw
canvasHeight == imageSh

gravity == Vector2D(0, GravityPx * Scale)
speedFactor == SpeedFactorPx * Scale
jumpFactor == -(JumpFactorPx * Scale)

\* Math.floor of a quantity in hundredths of a pixel, again in hundredths
Floor(v) == (v \div Scale) * Scale

(***************************************************************************)
(* Level tables.  collisions[row][col] with rows and columns counted from  *)
(* 0, as in the source.  Level 1 is the table of the source, 16 x 9 tiles. *)
(* Levels 2 to 4 are rooms of XCount x YCount tiles on which the game is   *)
(* explored: level 2 has no tiles at all, level 3 is a room with a floor,  *)
(* a spawn tile and a two-tile wall on its right side, and level 4 has a   *)
(* floor, a spawn tile, a door and two tiles that form an overhang.        *)
(***************************************************************************)
LevelIds == {2, 3, 4}

\* LEVELS[1].collisions, row by row
collisions1 ==
    << <<0, 0, 0, 0, 0, 0, 0, 0, 0, 0, 0, 0, 0, 0, 0, 0>>,
       <<0, 0, 0, 0, 0, 0, 0, 0, 0, 0, 0, 0, 0, 0, 0, 0>>,
       <<0, 292, 292, 292, 292, 292, 292, 292, 292, 292, 292, 292, 292, 292, 292, 0>>,
       <<0, 292, 0, 0, 0, 0, 0, 0, 0, 0, 0, 0, 0, 0, 292, 0>>,
       <<0, 292, 0, 0, 0, 0, 0, 0, 0, 0, 0, 0, 0, 0, 292, 0>>,
       <<0, 292, 292, 267, 0, 0, 0, 0, 0, 0, 0, 0, 290, 0, 292, 0>>,
       <<0, 292, 292, 292, 292, 292, 292, 292, 292, 292, 292, 292, 292, 292, 292, 0>>,
       <<0, 0, 0, 0, 0, 0, 0, 0, 0, 0, 0, 0, 0, 0, 0, 0>>,
       <<0, 0, 0, 0, 0, 0, 0, 0, 0, 0, 0, 0, 0, 0, 0, 0>> >>

collisions(level, row, col) ==
    CASE level = 1 -> collisions1[row + 1][col + 1]
      [] level = 2 -> 0
      [] level = 3 ->
            IF row = YCount - 1 THEN FlagCollision
            ELSE IF col = XCount - 1 /\ row >= YCount - 3 THEN FlagCollision
            ELSE IF col = 0 /\ row = YCount - 2 THEN FlagSpawn
            ELSE 0
      [] level = 4 ->
            IF row = YCount - 1 THEN FlagCollision
            ELSE IF row = 0 /\ col = 1 THEN FlagCollision
            ELSE IF row = 1 /\ col = 2 THEN FlagCollision
            ELSE IF row = 1 /\ col = 0 THEN FlagSpawn
            ELSE IF row = 0 /\ col = 0 THEN FlagDoor
            ELSE 0

\* a level: its collisions table and the tile counts of its background
Level(xCount, yCount, table) ==
    [collisions |-> table, tiles |-> [xCount |-> xCount, yCount |-> yCount]]

\* the table of a level, rows and columns counted from 0
LEVELS ==
    [level \in {1} \cup LevelIds |->
        LET xCount == IF level = 1 THEN Len(collisions1[1]) ELSE XCount
            yCount == IF level = 1 THEN Len(collisions1) ELSE YCount
        IN  Level(xCount, yCount,
                  [row \in 0 .. yCount - 1 |->
                      [col \in 0 .. xCount - 1 |-> collisions(level, row, col)]])]

(***************************************************************************)
(* Entries of the block list.  A CollisionBlock has pos, w and h; the      *)
(* Point subclasses (SpawnPlace, Door) and Heart have a pos only.          *)
(***************************************************************************)
CollisionBlock(x, y, w, h) ==
    [kind |-> "CollisionBlock", pos |-> Vector2D(x, y), w |-> w, h |-> h]

SpawnPlace(x, y) == [kind |-> "SpawnPlace", pos |-> Vector2D(x, y)]

Door(x, y) == [kind |-> "Door", pos |-> Vector2D(x, y)]

Heart(pos) == [kind |-> "Heart", pos |-> pos]

isCollisionBlock(block) == block.kind = "CollisionBlock"

\* the entries one grid cell contributes to the list
cellBlocks(level, row, col) ==
    LET block == level.collisions[row][col]
        tileW == TileWidthPx * Scale
        x == Floor((tileW * col * canvasWidth) \div imageSw)
        y == Floor((tileW * row * canvasHeight) \div imageSh)
        w == Floor((tileW * canvasWidth) \div imageSw)
        h == Floor((tileW * canvasHeight) \div imageSh)
    IN  (IF block = FlagCollision THEN <<CollisionBlock(x, y, w, h)>> ELSE <<>>)
        \o (IF block = FlagSpawn THEN <<SpawnPlace(x, y)>> ELSE <<>>)
        \o (IF block = FlagDoor THEN <<Door(x, y)>> ELSE <<>>)

\* the entries of the cells of one row from column col on
RECURSIVE rowBlocksFrom(_, _, _)
rowBlocksFrom(level, col, row) ==
    IF col >= level.tiles.xCount THEN <<>>
    ELSE cellBlocks(level, row, col) \o rowBlocksFrom(level, col + 1, row)

\* variant: the loops of initBlocks with rows outside, columns inside
RECURSIVE initBlocksFromRowMajor(_, _, _)
initBlocksFromRowMajor(level, col, row) ==
    IF row >= level.tiles.yCount THEN <<>>
    ELSE rowBlocksFrom(level, col, row)
         \o initBlocksFromRowMajor(level, 0, row + 1)

\* the inner loop of initBlocks: the cells of one column from row on
RECURSIVE columnBlocksFrom(_, _, _)
columnBlocksFrom(level, col, row) ==
    IF row >= level.tiles.yCount THEN <<>>
    ELSE cellBlocks(level, row, col) \o columnBlocksFrom(level, col, row + 1)

\* the two nested loops of initBlocks from cell (row, col) on: columns
\* outside, rows inside
RECURSIVE initBlocksFrom(_, _, _)
initBlocksFrom(level, col, row) ==
    IF col >= level.tiles.xCount THEN <<>>
    ELSE columnBlocksFrom(level, col, row)
         \o initBlocksFrom(level, col + 1, 0)

\* initBlocks for level = LEVELS[currentLevel]
initBlocks(level) == initBlocksFrom(level, 0, 0)

RECURSIVE initHeartsFrom(_)
initHeartsFrom(i) ==
    IF i >= Lives THEN <<>>
    ELSE <<Heart(Vector2D(HeartSpacingPx * Scale * i, 0))>> \o initHeartsFrom(i + 1)

initHearts(list) == list \o initHeartsFrom(0)

\* index of the first entry of the given kind, 0 when there is none
RECURSIVE findFrom(_, _, _)
findFrom(list, name, i) ==
    IF i > Len(list) THEN 0
    ELSE IF list[i].kind = name THEN i
    ELSE findFrom(list, name, i + 1)

findByConstructorName(list, name) == findFrom(list, name, 1)

\* the player as initPlayer leaves it for a block list
initPlayer(list) ==
    LET width == PlayerWidthPx * Scale
        height == PlayerHeightPx * Scale
        i == findByConstructorName(list, "SpawnPlace")
        buffer == width \div 2
        pos == IF i # 0
               THEN Vector2D(list[i].pos.x + buffer, list[i].pos.y)
               ELSE Vector2D(0, 0)
    IN  [pos |-> pos,
         vel |-> Vector2D(0, 0),
         width |-> (width * canvasWidth) \div imageSw,
         height |-> (height * canvasHeight) \div imageSh]

(***************************************************************************)
(* Collision resolution.                                                   *)
(***************************************************************************)
\* block.w and block.h are undefined on entries that are not
\* CollisionBlocks: the sums are NaN and every comparison with NaN is false
hasExtent(block) == "w" \in DOMAIN block /\ "h" \in DOMAIN block

\* variant: the overlap test of the X pass with exclusive bounds
overlapsXExclusive(p, block) ==
    /\ hasExtent(block)
    /\ p.pos.x < block.pos.x + block.w
    /\ p.pos.x + p.width > block.pos.x
    /\ p.pos.y + p.height > block.pos.y
    /\ p.pos.y < block.pos.y + block.h

\* the condition of the if in checkCollisionXaxis
overlapsX(p, block) ==
    /\ hasExtent(block)
    /\ p.pos.x <= block.pos.x + block.w
    /\ p.pos.x + p.width >= block.pos.x
    /\ p.pos.y + p.height >= block.pos.y
    /\ p.pos.y <= block.pos.y + block.h

\* variant: an entry without w and h is tested as a block of no extent
overlapsYNoExtent(p, block) ==
    LET w == IF "w" \in DOMAIN block THEN block.w ELSE 0
        h == IF "h" \in DOMAIN block THEN block.h ELSE 0
    IN  /\ p.pos.x <= block.pos.x + w
        /\ p.pos.x + p.width >= block.pos.x
        /\ p.pos.y + p.height >= block.pos.y
        /\ p.pos.y <= block.pos.y + h

\* the condition of the if in checkCollisionYaxis
overlapsY(p, block) ==
    /\ hasExtent(block)
    /\ p.pos.x <= block.pos.x + block.w
    /\ p.pos.x + p.width >= block.pos.x
    /\ p.pos.y + p.height >= block.pos.y
    /\ p.pos.y <= block.pos.y + block.h

\* variant: the X pass zeroes vel.x after the snap, as the Y pass does
resolveXZeroesVel(p, block) ==
    LET p1 == IF p.vel.x < 0
              THEN [p EXCEPT !.pos.x = block.pos.x + block.w + Epsilon]
              ELSE p
        p2 == IF p1.vel.x > 0
              THEN [p1 EXCEPT !.pos.x = block.pos.x - p1.width - Epsilon]
              ELSE p1
    IN  [p2 EXCEPT !.vel.x = 0]

\* variant: the snap of the X pass without the separating bias
resolveXNoBias(p, block) ==
    LET p1 == IF p.vel.x < 0
              THEN [p EXCEPT !.pos.x = block.pos.x + block.w]
              ELSE p
    IN  IF p1.vel.x > 0
        THEN [p1 EXCEPT !.pos.x = block.pos.x - p1.width]
        ELSE p1

\* body of the if in checkCollisionXaxis
resolveX(p, block) ==
    LET p1 == IF p.vel.x < 0
              THEN [p EXCEPT !.pos.x = block.pos.x + block.w + Epsilon]
              ELSE p
    IN  IF p1.vel.x > 0
        THEN [p1 EXCEPT !.pos.x = block.pos.x - p1.width - Epsilon]
        ELSE p1

\* variant: the Y pass snaps the body and keeps its vertical velocity
resolveYKeepsVel(p, block) ==
    LET p1 == IF p.vel.y < 0
              THEN [p EXCEPT !.pos.y = block.pos.y + block.h + Epsilon]
              ELSE p
    IN  IF p1.vel.y > 0
        THEN [p1 EXCEPT !.pos.y = block.pos.y - p1.height - Epsilon]
        ELSE p1

\* body of the if in checkCollisionYaxis
resolveY(p, block) ==
    LET p1 == IF p.vel.y < 0
              THEN [p EXCEPT !.pos.y = block.pos.y + block.h + Epsilon]
              ELSE p
        p2 == IF p1.vel.y > 0
              THEN [p1 EXCEPT !.pos.y = block.pos.y - p1.height - Epsilon]
              ELSE p1
    IN  [p2 EXCEPT !.vel.y = 0]

\* the for loop of checkCollisionXaxis from entry i on, with its break
RECURSIVE scanXaxis(_, _, _)
scanXaxis(p, list, i) ==
    IF i > Len(list) THEN p
    ELSE IF overlapsX(p, list[i]) THEN resolveX(p, list[i])
    ELSE scanXaxis(p, list, i + 1)

\* variant: the X pass ends by stopping the horizontal motion
checkCollisionXaxisStops(p, list) ==
    [scanXaxis(p, list, 1) EXCEPT !.vel.x = 0]

checkCollisionXaxis(p, list) == scanXaxis(p, list, 1)

\* the for loop of checkCollisionYaxis from entry i on, with its break
RECURSIVE scanYaxis(_, _, _)
scanYaxis(p, list, i) ==
    IF i > Len(list) THEN p
    ELSE IF overlapsY(p, list[i]) THEN resolveY(p, list[i])
    ELSE scanYaxis(p, list, i + 1)

\* variant: the Y pass scans the list from its last entry to its first
RECURSIVE scanYaxisDown(_, _, _)
scanYaxisDown(p, list, i) ==
    IF i < 1 THEN p
    ELSE IF overlapsY(p, list[i]) THEN resolveY(p, list[i])
    ELSE scanYaxisDown(p, list, i - 1)

checkCollisionYaxisLastFirst(p, list) == scanYaxisDown(p, list, Len(list))

checkCollisionYaxis(p, list) == scanYaxis(p, list, 1)

(***************************************************************************)
(* Gravity and the canvas clamp.                                           *)
(***************************************************************************)
\* variant: the floor test also takes a body that stands exactly on the
\* floor for airborne
applyGravityInclusive(body) ==
    LET bottom == body.pos.y + body.height
    IN  IF bottom <= canvasHeight
        THEN [body EXCEPT !.vel = add(body.vel, gravity)]
        ELSE [body EXCEPT !.vel.y = 0, !.pos.y = canvasHeight - body.height]

\* variant: the floor branch zeroes the whole velocity, as stop does
applyGravityStopsBody(body) ==
    LET bottom == body.pos.y + body.height
    IN  IF bottom < canvasHeight
        THEN [body EXCEPT !.vel = add(body.vel, gravity)]
        ELSE [body EXCEPT !.vel = multiply(body.vel, 0),
                          !.pos.y = canvasHeight - body.height]

\* variant: the floor branch places the body one bias above the floor, as
\* the block resolution does
applyGravityWithBias(body) ==
    LET bottom == body.pos.y + body.height
    IN  IF bottom < canvasHeight
        THEN [body EXCEPT !.vel = add(body.vel, gravity)]
        ELSE [body EXCEPT !.vel.y = 0,
                          !.pos.y = canvasHeight - body.height - Epsilon]

\* variant: the floor branch stops the fall and leaves the body where it is
applyGravityKeepsPos(body) ==
    LET bottom == body.pos.y + body.height
    IN  IF bottom < canvasHeight
        THEN [body EXCEPT !.vel = add(body.vel, gravity)]
        ELSE [body EXCEPT !.vel.y = 0]

applyGravity(body) ==
    LET bottom == body.pos.y + body.height
    IN  IF bottom < canvasHeight
        THEN [body EXCEPT !.vel = add(body.vel, gravity)]
        ELSE [body EXCEPT !.vel.y = 0, !.pos.y = canvasHeight - body.height]

\* variant: the left side of the clamp tested with a strict inequality
checkCanvasCollisionStrictLeft(p) ==
    LET hasHitLeftSide == p.pos.x < 0
        hasHitUpSide == p.pos.y <= 0
        hasHitRightSide == p.pos.x + p.width >= canvasWidth
        p1 == IF hasHitLeftSide THEN [p EXCEPT !.pos.x = 0, !.vel.x = 0] ELSE p
        p2 == IF hasHitUpSide THEN [p1 EXCEPT !.vel.y = 0, !.pos.y = 0] ELSE p1
    IN  IF hasHitRightSide
        THEN [p2 EXCEPT !.vel.x = 0, !.pos.x = canvasWidth - p2.width]
        ELSE p2

\* variant: the clamp of the earlier iteration, which also acts on the
\* bottom side
checkCanvasCollisionFourSided(p) ==
    LET hasHitLeftSide == p.pos.x <= 0
        hasHitUpSide == p.pos.y <= 0
        hasHitRightSide == p.pos.x + p.width >= canvasWidth
        hasHitDownSide == p.pos.y + p.height >= canvasHeight
        p1 == IF hasHitLeftSide THEN [p EXCEPT !.pos.x = 0, !.vel.x = 0] ELSE p
        p2 == IF hasHitUpSide THEN [p1 EXCEPT !.vel.y = 0, !.pos.y = 0] ELSE p1
        p3 == IF hasHitRightSide
              THEN [p2 EXCEPT !.vel.x = 0, !.pos.x = canvasWidth - p2.width]
              ELSE p2
    IN  IF hasHitDownSide
        THEN [p3 EXCEPT !.vel.y = 0, !.pos.y = canvasHeight - p3.height]
        ELSE p3

\* variant: a side that is hit reverses the velocity instead of zeroing it
checkCanvasCollisionBounces(p) ==
    LET hasHitLeftSide == p.pos.x <= 0
        hasHitUpSide == p.pos.y <= 0
        hasHitRightSide == p.pos.x + p.width >= canvasWidth
        p1 == IF hasHitLeftSide
              THEN [p EXCEPT !.pos.x = 0, !.vel.x = -p.vel.x]
              ELSE p
        p2 == IF hasHitUpSide
              THEN [p1 EXCEPT !.vel.y = -p1.vel.y, !.pos.y = 0]
              ELSE p1
    IN  IF hasHitRightSide
        THEN [p2 EXCEPT !.vel.x = -p2.vel.x, !.pos.x = canvasWidth - p2.width]
        ELSE p2

\* GameEngine.checkCanvasCollision: left, top and right side; no caller
checkCanvasCollision(p) ==
    LET hasHitLeftSide == p.pos.x <= 0
        hasHitUpSide == p.pos.y <= 0
        hasHitRightSide == p.pos.x + p.width >= canvasWidth
        p1 == IF hasHitLeftSide THEN [p EXCEPT !.pos.x = 0, !.vel.x = 0] ELSE p
        p2 == IF hasHitUpSide THEN [p1 EXCEPT !.vel.y = 0, !.pos.y = 0] ELSE p1
    IN  IF hasHitRightSide
        THEN [p2 EXCEPT !.vel.x = 0, !.pos.x = canvasWidth - p2.width]
        ELSE p2

(***************************************************************************)
(* Player.update: five statements, run in this order.                      *)
(***************************************************************************)
integrateX(p) == [p EXCEPT !.pos.x = @ + p.vel.x]

integrateY(p) == [p EXCEPT !.pos.y = @ + p.vel.y]

\* variant: gravity applied before the X resolution
updateStepsGravityFirst ==
    <<"integrateX", "applyGravity", "checkCollisionXaxis",
      "integrateY", "checkCollisionYaxis">>

updateSteps ==
    <<"integrateX", "checkCollisionXaxis", "applyGravity",
      "integrateY", "checkCollisionYaxis">>

\* the effect of one statement of update
updateStatement(name, p, list) ==
    CASE name = "integrateX" -> integrateX(p)
      [] name = "checkCollisionXaxis" -> checkCollisionXaxis(p, list)
      [] name = "applyGravity" -> applyGravity(p)
      [] name = "integrateY" -> integrateY(p)
      [] name = "checkCollisionYaxis" -> checkCollisionYaxis(p, list)

\* statements i.. of update, run to the end of the call
RECURSIVE updateFrom(_, _, _)
updateFrom(i, p, list) ==
    IF i > Len(updateSteps) THEN p
    ELSE updateFrom(i + 1, updateStatement(updateSteps[i], p, list), list)

update(p, list) == updateFrom(1, p, list)

(***************************************************************************)
(* Input commands.                                                         *)
(***************************************************************************)
stop(p) == [p EXCEPT !.vel = multiply(p.vel, 0)]

\* variant: a move also shifts the body by one step
moveShiftsPos(p, direction) ==
    CASE direction = "ArrowLeft" ->
            [p EXCEPT !.vel.x = -speedFactor, !.pos.x = @ - speedFactor]
      [] direction = "ArrowRight" ->
            [p EXCEPT !.vel.x = speedFactor, !.pos.x = @ + speedFactor]
      [] OTHER -> p

\* variant: a move adds the speed to vel.x instead of assigning it
moveAccumulates(p, direction) ==
    CASE direction = "ArrowLeft" -> [p EXCEPT !.vel.x = @ - speedFactor]
      [] direction = "ArrowRight" -> [p EXCEPT !.vel.x = @ + speedFactor]
      [] OTHER -> p

move(p, direction) ==
    CASE direction = "ArrowLeft" -> [p EXCEPT !.vel.x = -speedFactor]
      [] direction = "ArrowRight" -> [p EXCEPT !.vel.x = speedFactor]
      [] OTHER -> p

\* variant: the jump of the first iteration, without the test of vel.y
jumpUnconditional(p) == [p EXCEPT !.vel = add(p.vel, Vector2D(0, jumpFactor))]

jump(p) ==
    IF p.vel.y = 0
    THEN [p EXCEPT !.vel = add(p.vel, Vector2D(0, jumpFactor))]
    ELSE p

Keys == {" ", "ArrowLeft", "ArrowRight", "ArrowUp", "a", "d"}

keyPressed(p, key) ==
    CASE key = " " -> jump(p)
      [] key = "ArrowLeft" -> move(p, "ArrowLeft")
      [] key = "ArrowRight" -> move(p, "ArrowRight")
      [] OTHER -> p

keyReleased(p, key) ==
    IF key \in {"ArrowRight", "ArrowLeft", "ArrowUp", "a"} THEN stop(p) ELSE p

(***************************************************************************)
(* Natural numbers beyond the integers of the checker.  A natural number   *)
(* is the sequence of its digits in base 2^15, lowest digit first, without *)
(* a highest digit 0: <<>> is 0 and <<d1, d2, d3>> is                      *)
(* d1 + d2 * 2^15 + d3 * 2^30.                                             *)
(***************************************************************************)
BaseBits == 15

Base == 2^BaseBits

pow2(n) == IF n <= 0 THEN 1 ELSE 2^n

abs(n) == IF n < 0 THEN -n ELSE n

\* number of bits of a natural number below 2^30
bits(n) == CHOOSE k \in 0..30 : n < pow2(k) /\ (k = 0 \/ pow2(k - 1) <= n)

digit(a, i) == IF 1 <= i /\ i <= Len(a) THEN a[i] ELSE 0

\* a sequence of digits without the digits 0 at its high end
trim(a) ==
    IF \A i \in 1..Len(a) : a[i] = 0 THEN <<>>
    ELSE SubSeq(a, 1, CHOOSE i \in 1..Len(a) :
                          a[i] # 0 /\ \A k \in (i + 1)..Len(a) : a[k] = 0)

RECURSIVE natural(_)
natural(n) == IF n = 0 THEN <<>> ELSE <<n % Base>> \o natural(n \div Base)

\* the number of a sequence of entries from 0 to 2 * Base - 2: entry i
\* takes a carry when an entry below it is Base or more and every entry
\* between the two passes the carry on
carried(raw) ==
    LET carry(i) == \E j \in 1..(i - 1) :
                        /\ raw[j] >= Base
                        /\ \A k \in (j + 1)..(i - 1) : raw[k] >= Base - 1
    IN  trim([i \in 1..(Len(raw) + 1) |->
                 (digit(raw, i) + IF carry(i) THEN 1 ELSE 0) % Base])

sumOf(a, b) ==
    IF a = <<>> THEN b
    ELSE IF b = <<>> THEN a
    ELSE carried([i \in 1..(IF Len(a) > Len(b) THEN Len(a) ELSE Len(b)) |->
                     digit(a, i) + digit(b, i)])

\* a - b for a >= b: digit i lends when a digit below it falls short and
\* every digit between the two has nothing to lend
difference(a, b) ==
    LET raw == [i \in 1..Len(a) |-> a[i] - digit(b, i)]
        borrow(i) == \E j \in 1..(i - 1) :
                         /\ raw[j] < 0
                         /\ \A k \in (j + 1)..(i - 1) : raw[k] <= 0
    IN  IF b = <<>> THEN a
        ELSE trim([i \in 1..Len(a) |->
                      (raw[i] - (IF borrow(i) THEN 1 ELSE 0) + Base) % Base])

\* -1, 0 or 1 as a is below, equal to or above b
compare(a, b) ==
    IF Len(a) # Len(b) THEN (IF Len(a) < Len(b) THEN -1 ELSE 1)
    ELSE IF a = b THEN 0
    ELSE IF \E i \in 1..Len(a) :
                a[i] < b[i] /\ \A k \in (i + 1)..Len(a) : a[k] = b[k]
    THEN -1
    ELSE 1

\* a * d for a digit d: the low halves of the products of the digits, and
\* their high halves one place up
productByDigit(a, d) ==
    IF a = <<>> \/ d = 0 THEN <<>>
    ELSE carried([i \in 1..(Len(a) + 1) |->
                     ((digit(a, i) * d) % Base)
                        + ((digit(a, i - 1) * d) \div Base)])

\* a * Base^n
shiftDigits(a, n) == IF a = <<>> THEN <<>> ELSE [i \in 1..n |-> 0] \o a

RECURSIVE productFrom(_, _, _)
productFrom(a, b, i) ==
    IF i > Len(b) THEN <<>>
    ELSE sumOf(shiftDigits(productByDigit(a, b[i]), i - 1),
             productFrom(a, b, i + 1))

product(a, b) ==
    IF a = <<>> \/ b = <<>> THEN <<>> ELSE productFrom(a, b, 1)

\* a * 2^k and the integer part of a / 2^k
shiftLeft(a, k) ==
    LET n == k \div BaseBits
        b == k % BaseBits
    IN  IF a = <<>> THEN <<>>
        ELSE trim([i \in 1..(Len(a) + n + 1) |->
                      ((digit(a, i - n) * pow2(b)) % Base)
                         + (digit(a, i - n - 1) \div pow2(BaseBits - b))])

shiftRight(a, k) ==
    LET n == k \div BaseBits
        b == k % BaseBits
    IN  IF a = <<>> THEN <<>>
        ELSE trim([i \in 1..(Len(a) - n) |->
                      (digit(a, i + n) \div pow2(b))
                         + ((digit(a, i + n + 1) % pow2(b))
                               * pow2(BaseBits - b))])

bitLength(a) ==
    IF a = <<>> THEN 0 ELSE BaseBits * (Len(a) - 1) + bits(a[Len(a)])

\* the greatest digit d with b * d <= n, for n < b * Base and b with a highest
\* digit of at least Base / 2: the quotient of the two highest digits of n by
\* the highest digit of b is d, d + 1 or d + 2
quotientDigit(n, b) ==
    LET high == digit(n, Len(b) + 1) * Base + digit(n, Len(b))
        estimate == IF high \div digit(b, Len(b)) >= Base THEN Base - 1
                    ELSE high \div digit(b, Len(b))
    IN  IF compare(productByDigit(b, estimate), n) <= 0 THEN estimate
        ELSE IF compare(productByDigit(b, estimate - 1), n) <= 0
        THEN estimate - 1
        ELSE estimate - 2

\* long division of a by b from digit i of a down, r the remainder of the
\* digits above it: the remainder followed by the digits of the quotient,
\* lowest first
RECURSIVE quotientFrom(_, _, _, _)
quotientFrom(a, b, i, r) ==
    LET step(n, d) ==
            IF d = 0 THEN quotientFrom(a, b, i - 1, n) \o <<0>>
            ELSE quotientFrom(a, b, i - 1,
                              difference(n, productByDigit(b, d))) \o <<d>>
        from(n) == step(n, quotientDigit(n, b))
    IN  IF i <= 0 THEN <<r>> ELSE from(trim(<<a[i]>> \o r))

\* quotient and remainder of a by b, b other than 0: both are scaled to
\* give b a highest digit of at least Base / 2, and the division starts
\* from the digits of a that can reach b
quotientRemainder(a, b) ==
    LET split(qr, k) == [quotient |-> trim(Tail(qr)),
                         remainder |-> shiftRight(Head(qr), k)]
        divide(x, y, i, k) ==
            split(quotientFrom(x, y, i,
                               SubSeq(x, (IF i < 0 THEN 0 ELSE i) + 1, Len(x))),
                  k)
        scaled(x, y, k) == divide(x, y, Len(x) - Len(y) + 1, k)
        by(k) == scaled(shiftLeft(a, k), shiftLeft(b, k), k)
    IN  by(BaseBits - bits(digit(b, Len(b))))

\* the integer part of the square root of a, by Newton's iteration from a
\* power of two s above it: the iterates fall until the root is reached
RECURSIVE rootFrom(_, _)
rootFrom(a, s) ==
    LET next(t) == IF compare(t, s) >= 0 THEN s ELSE rootFrom(a, t)
    IN  next(shiftRight(sumOf(s, quotientRemainder(a, s).quotient), 1))

root(a) ==
    IF a = <<>> THEN <<>>
    ELSE rootFrom(a, shiftLeft(<<1>>, (bitLength(a) + 1) \div 2))

(***************************************************************************)
(* Numbers of the Vector2D calls.  The methods compute with doubles: every *)
(* product, quotient, sum and square root is the exact result rounded to   *)
(* the nearest number with a significand of MantissaBits bits, ties to     *)
(* even.  A number is s * m * 2^e with the sign s 1 or -1 and m an odd     *)
(* natural number, written in digits as above, or it is 0, which is        *)
(* [s |-> 1, m |-> <<>>, e |-> 0], so that === is equality of the records  *)
(* (0 and -0, which === does not tell apart, are one number): 49 is        *)
(* [s |-> 1, m |-> <<49>>, e |-> 0] and 1 / 3, 6004799503160661 * 2^-54,   *)
(* is [s |-> 1, m |-> <<21845, 10922, 21845, 170>>, e |-> -54].            *)
(* NaN, which 0 / 0 and the root of a negative number give, is a record of *)
(* its own and every operation on it gives it.  Exponents beyond the range *)
(* of a double and infinite numbers, which a / 0 gives for a other than 0, *)
(* are not modelled.                                                       *)
(***************************************************************************)
\* significand bits of a double
MantissaBits == 53

\* the number of zero bits at the low end of a digit other than 0
trailingZeros(d) == CHOOSE k \in 0..BaseBits : d % pow2(k + 1) = pow2(k)

RECURSIVE normal(_, _, _)
normal(s, m, e) ==
    IF m = <<>> THEN [s |-> 1, m |-> <<>>, e |-> 0]
    ELSE IF Head(m) = 0 THEN normal(s, Tail(m), e + BaseBits)
    ELSE [s |-> s, m |-> shiftRight(m, trailingZeros(Head(m))),
          e |-> e + trailingZeros(Head(m))]

signOf(n) == IF n < 0 THEN -1 ELSE 1

\* the double of an integer n
Number(n) == normal(signOf(n), natural(abs(n)), 0)

\* the result of 0 / 0, not a number
NaN == [s |-> 0, m |-> <<>>, e |-> 0]

\* s * m * 2^e rounded to MantissaBits bits, ties to even: q is m without
\* its k lowest bits, and half tells how they compare with half a unit of q
round(s, m, e) ==
    LET nearest(q, half) ==
            IF half > 0 \/ (half = 0 /\ Head(q) % 2 = 1) THEN sumOf(q, <<1>>)
            ELSE q
        cut(q, k) ==
            normal(s,
                   nearest(q, compare(difference(m, shiftLeft(q, k)),
                                      shiftLeft(<<1>>, k - 1))),
                   e + k)
        to(k) == IF k <= 0 THEN normal(s, m, e) ELSE cut(shiftRight(m, k), k)
    IN  IF m = <<>> THEN normal(s, m, e)
        ELSE to(bitLength(m) - MantissaBits)

\* a * b
times(a, b) ==
    IF a = NaN \/ b = NaN THEN NaN
    ELSE IF a.m = <<>> \/ b.m = <<>> THEN Number(0)
    ELSE round(a.s * b.s, product(a.m, b.m), a.e + b.e)

\* a + b and a - b: x and y are the significands at the lower exponent e
plus(a, b) ==
    LET aligned(x, y, e) ==
            IF a.s = b.s THEN round(a.s, sumOf(x, y), e)
            ELSE IF compare(x, y) >= 0 THEN round(a.s, difference(x, y), e)
            ELSE round(b.s, difference(y, x), e)
        at(e) == aligned(shiftLeft(a.m, a.e - e), shiftLeft(b.m, b.e - e), e)
    IN  IF a = NaN \/ b = NaN THEN NaN
        ELSE IF a.m = <<>> THEN b
        ELSE IF b.m = <<>> THEN a
        ELSE at(IF a.e < b.e THEN a.e ELSE b.e)

\* 0 and NaN are their own negatives
minus(a, b) == plus(a, IF b.m = <<>> THEN b ELSE [b EXCEPT !.s = -b.s])

\* a < b, false when a or b is NaN
less(a, b) ==
    LET negative(d) == d.s = -1 /\ d.m # <<>>
    IN  negative(minus(a, b))

\* a / b for b other than 0, and 0 / 0: the quotient of a.m * 2^k by b.m is
\* computed to at least two bits more than the significand holds, with one
\* more bit that tells it is inexact
over(a, b) ==
    LET rounded(qr, k) ==
            round(a.s * b.s,
                  sumOf(sumOf(qr.quotient, qr.quotient),
                        IF qr.remainder = <<>> THEN <<>> ELSE <<1>>),
                  a.e - b.e - k - 1)
        scaled(k) == rounded(quotientRemainder(shiftLeft(a.m, k), b.m), k)
    IN  IF a = NaN \/ b = NaN \/ (a.m = <<>> /\ b.m = <<>>) THEN NaN
        ELSE IF a.m = <<>> THEN a
        ELSE scaled(MantissaBits + 2 + bitLength(b.m) - bitLength(a.m))

\* Math.sqrt(a), NaN for a < 0: the root s of n = a.m * 2^k, k of the parity of
\* the exponent, is computed to at least two bits more than the significand
\* holds; a root that is not exact gets one more bit that tells so
sqrt(a) ==
    LET rounded(n, s, e) ==
            IF product(s, s) = n THEN round(1, s, e)
            ELSE round(1, sumOf(sumOf(s, s), <<1>>), e - 1)
        scaled(n, k) == rounded(n, root(n), (a.e - k) \div 2)
        by(k) == scaled(shiftLeft(a.m, k), k)
        even(j) == by(j + ((a.e - j) % 2))
    IN  IF a.m = <<>> THEN a
        ELSE IF a.s = -1 THEN NaN
        ELSE even(2 * MantissaBits + 4 - bitLength(a.m))

(***************************************************************************)
(* Vector2D calls.  The outcome of a call is the receiver and the argument *)
(* as the call leaves them, the vector it returns, which object that       *)
(* vector is ("new", "this" or "other"), and whether it threw instead.     *)
(***************************************************************************)
Zero == Number(0)

Returned(this, other, result) ==
    [this |-> this, other |-> other, result |-> result,
     instance |-> "new", thrown |-> FALSE]

\* a call that throws returns no vector: instance is "none" and result is a
\* filler that nothing reads
Thrown(this, other) ==
    [this |-> this, other |-> other, result |-> Vector2D(NaN, NaN),
     instance |-> "none", thrown |-> TRUE]

magnitude(v) == sqrt(plus(times(v.x, v.x), times(v.y, v.y)))

dotProduct(a, b) == plus(times(a.x, b.x), times(a.y, b.y))

\* this.x === other.x && this.y === other.y: NaN === NaN is false
equals(a, b) ==
    /\ a.x # NaN
    /\ a.y # NaN
    /\ a.x = b.x
    /\ a.y = b.y

\* variant: add accumulates into the receiver and returns it
addCallInPlace(this, other) ==
    LET sum == Vector2D(plus(this.x, other.x), plus(this.y, other.y))
    IN  [this |-> sum, other |-> other, result |-> sum,
         instance |-> "this", thrown |-> FALSE]

addCall(this, other) ==
    Returned(this, other, Vector2D(plus(this.x, other.x), plus(this.y, other.y)))

subtractCall(this, other) ==
    Returned(this, other,
             Vector2D(minus(this.x, other.x), minus(this.y, other.y)))

\* variant: multiply scales x and leaves y as it is
multiplyCallXOnly(this, scalar) ==
    Returned(this, this, Vector2D(times(this.x, scalar), this.y))

multiplyCall(this, scalar) ==
    Returned(this, this, Vector2D(times(this.x, scalar), times(this.y, scalar)))

scaleCall(this, scalar) ==
    Returned(this, this, Vector2D(times(this.x, scalar), times(this.y, scalar)))

\* variant: divide without the test for zero
divideCallUnchecked(this, scalar) ==
    IF scalar = Zero THEN Returned(this, this, Vector2D(NaN, NaN))
    ELSE Returned(this, this, Vector2D(over(this.x, scalar), over(this.y, scalar)))

divideCall(this, scalar) ==
    IF scalar = Zero THEN Thrown(this, this)
    ELSE Returned(this, this, Vector2D(over(this.x, scalar), over(this.y, scalar)))

\* variant: normalize written as a division by the magnitude
normalizeCallByDivide(this) == divideCall(this, magnitude(this))

normalizeCall(this) ==
    LET mag == magnitude(this)
    IN  IF mag = Zero THEN Returned(this, this, Vector2D(Zero, Zero))
        ELSE Returned(this, this, Vector2D(over(this.x, mag), over(this.y, mag)))

\* Math.PI, 884279719003555 * 2^-48
Pi == [s |-> 1, m |-> <<1443, 21777, 4349, 25>>, e |-> -48]

\* the angles of the rotate calls: 0, Math.PI / 2, Math.PI and -Math.PI / 2
Angles == {Zero, over(Pi, Number(2)), Pi, over(Pi, Number(-2))}

\* Math.cos(angle) for the angles of Angles: Math.cos(Math.PI / 2) and
\* Math.cos(-Math.PI / 2) are 6.123233995736766e-17,
\* 4967757600021511 * 2^-106
cos(angle) ==
    IF angle = Zero THEN Number(1)
    ELSE IF angle = Pi THEN Number(-1)
    ELSE [s |-> 1, m |-> <<23559, 26152, 6296, 141>>, e |-> -106]

\* Math.sin(angle) for the angles of Angles: Math.sin(Math.PI) is
\* 1.2246467991473532e-16, 4967757600021511 * 2^-105
sin(angle) ==
    IF angle = Zero THEN Zero
    ELSE IF angle = Pi
    THEN [s |-> 1, m |-> <<23559, 26152, 6296, 141>>, e |-> -105]
    ELSE IF angle.s = 1 THEN Number(1)
    ELSE Number(-1)

rotateCall(this, angle) ==
    LET rotated(cosAngle, sinAngle) ==
            Vector2D(minus(times(this.x, cosAngle), times(this.y, sinAngle)),
                     plus(times(this.x, sinAngle), times(this.y, cosAngle)))
    IN  Returned(this, this, rotated(cos(angle), sin(angle)))

perpendicularToCall(this, clockwise) ==
    LET sign == IF clockwise THEN Number(1) ELSE Number(-1)
    IN  Returned(this, this,
                 Vector2D(times(minus(Zero, sign), this.y), times(sign, this.x)))

\* other.normalize().scale(dot / (mag * mag)); the quotient is 0 / 0 when
\* other is the zero vector
projectOntoCall(this, other) ==
    LET scalarProjection(mag) == over(dotProduct(this, other), times(mag, mag))
    IN  Returned(this, other,
                 scaleCall(normalizeCall(other).result,
                           scalarProjection(magnitude(other))).result)

\* v.multiply(s).divide(s)
multiplyDivideCall(this, scalar) ==
    LET quotient == divideCall(multiplyCall(this, scalar).result, scalar)
    IN  [quotient EXCEPT !.this = this, !.other = this]

noCall == [op |-> "none"]

(***************************************************************************)
(* State machine.                                                          *)
(***************************************************************************)
\* frames are explored while the body is within MarginPx of the canvas
InRegion(p) ==
    /\ p.pos.x >= -(MarginPx * Scale)
    /\ p.pos.x + p.width <= canvasWidth + MarginPx * Scale
    /\ p.pos.y >= -(MarginPx * Scale)

\* variant: a callback requests two further callbacks
requestAnimationFrameTwice(n) == n + 2

\* requestAnimationFrame(animate): one more callback is requested
requestAnimationFrame(n) == n + 1

\* GAME.start for one of the levels, then the first request of a callback
Init ==
    \E level \in {LEVELS[id] : id \in LevelIds} :
        /\ blocks = initHearts(initBlocks(level))
        /\ player = initPlayer(initBlocks(level))
        /\ pc = 0
        /\ pending = requestAnimationFrame(0)
        /\ call = noCall

\* keydown listener
handleKeyPressed ==
    /\ pc = 0
    /\ \E key \in Keys : player' = keyPressed(player, key)
    /\ UNCHANGED <<blocks, pc, pending, call>>

\* keyup listener
handleKeyReleased ==
    /\ pc = 0
    /\ \E key \in Keys : player' = keyReleased(player, key)
    /\ UNCHANGED <<blocks, pc, pending, call>>

\* the host runs a requested animation-frame callback: animate calls
\* render, which reaches player.update
render ==
    /\ pc = 0
    /\ pending > 0
    /\ InRegion(player)
    /\ pc' = 1
    /\ pending' = pending - 1
    /\ UNCHANGED <<player, blocks, call>>

\* the next statement of Player.update; after the last one render returns
\* and animate requests the next callback
updateStep ==
    /\ pc \in 1..Len(updateSteps)
    /\ player' = updateStatement(updateSteps[pc], player, blocks)
    /\ pc' = IF pc = Len(updateSteps) THEN 0 ELSE pc + 1
    /\ pending' = IF pc = Len(updateSteps)
                  THEN requestAnimationFrame(pending)
                  ELSE pending
    /\ UNCHANGED <<blocks, call>>

Next == handleKeyPressed \/ handleKeyReleased \/ render \/ updateStep

Spec == Init /\ [][Next]_vars

(***************************************************************************)
(* The runs of the program in which no key is released and every frame     *)
(* starts from a position within the four canvas bounds.  Every behaviour  *)
(* of SpecInCanvas is a behaviour of Spec.                                 *)
(***************************************************************************)
InCanvas(p) ==
    /\ p.pos.x >= 0
    /\ p.pos.y >= 0
    /\ p.pos.x + p.width <= canvasWidth
    /\ p.pos.y + p.height <= canvasHeight

renderInCanvas ==
    /\ InCanvas(player)
    /\ render

NextInCanvas == handleKeyPressed \/ renderInCanvas \/ updateStep

SpecInCanvas == Init /\ [][NextInCanvas]_vars

(***************************************************************************)
(* The runs without input that start between two frames with the body at   *)
(* rest in the air, where a key release (stop) has left it.  The body is   *)
(* on the lattice of positions that whole moves from the spawn position    *)
(* and whole pixels of fall give.  The animation-frame callback requests   *)
(* itself again at the end of every call, so frames keep running: weak     *)
(* fairness of render and of the statements of update.                     *)
(***************************************************************************)
restPositions(list) ==
    LET spawn == initPlayer(list)
        columns == (XCount * TileWidthPx + 2 * MarginPx) \div SpeedFactorPx
        rows == YCount * TileWidthPx + MarginPx
    IN  {Vector2D(spawn.pos.x + i * speedFactor, j * Scale) :
            i \in -columns..columns, j \in -MarginPx..rows}

InitAtRest ==
    \E level \in {LEVELS[id] : id \in LevelIds} :
        /\ blocks = initHearts(initBlocks(level))
        /\ \E pos \in restPositions(initBlocks(level)) :
              player = [initPlayer(initBlocks(level)) EXCEPT !.pos = pos]
        /\ pc = 0
        /\ pending = requestAnimationFrame(0)
        /\ call = noCall
        /\ InRegion(player)
        /\ player.pos.y + player.height < canvasHeight
        /\ \A i \in 1..Len(blocks) : ~overlapsX(player, blocks[i])

NextNoInput == render \/ updateStep

SpecNoInput ==
    InitAtRest /\ [][NextNoInput]_vars /\ WF_vars(render) /\ WF_vars(updateStep)

(***************************************************************************)
(* The sprite of the player and the frame time.  The sprite is a field of  *)
(* the player; Spec and the specifications above follow the body alone     *)
(* (pos, vel, width, height), SpecTimed also follows the sprite and gives  *)
(* every frame a frame time.  The maxFrames and duration attributes of the *)
(* images are set in the page; here every image has the same duration.     *)
(* Frames start inside the canvas, as in SpecInCanvas.                     *)
(***************************************************************************)
DeltaTimes == 1..MaxDeltaTime

maxFrames(img) ==
    IF img \in {"runLeft", "runRight"} THEN RunFrames ELSE IdleFrames

duration(img) == AnimationTimer

ActorSprite(img) ==
    [image |-> img, maxFrame |-> maxFrames(img), currentFrame |-> 0,
     animationTimer |-> duration(img), animationCounter |-> 0]

swapSprite(sprite, img) ==
    [sprite EXCEPT !.image = img, !.maxFrame = maxFrames(img),
                   !.animationTimer = duration(img)]

moveFrame(sprite) ==
    IF sprite.currentFrame >= sprite.maxFrame - 1
    THEN [sprite EXCEPT !.currentFrame = 0]
    ELSE [sprite EXCEPT !.currentFrame = @ + 1, !.animationCounter = 0]

\* ActorSprite.animate
animate(sprite, deltaTime) ==
    LET s == [sprite EXCEPT !.animationCounter = @ + deltaTime]
    IN  IF s.animationCounter >= s.animationTimer THEN moveFrame(s) ELSE s

\* variant: the frame time also advances the body along its velocity
playerAnimateMovesBody(p, deltaTime) ==
    [p EXCEPT !.sprite = animate(@, deltaTime),
              !.pos.x = @ + p.vel.x * deltaTime]

\* Player.animate
playerAnimate(p, deltaTime) == [p EXCEPT !.sprite = animate(@, deltaTime)]

\* the player as its constructor and initPlayer leave it, with its sprite
PlayerWithSprite(p) ==
    [pos |-> p.pos, vel |-> p.vel, width |-> p.width, height |-> p.height,
     direction |-> "right", sprite |-> ActorSprite("idle_right")]

\* the body of a player: the fields the physics reads and writes
Body(p) ==
    [pos |-> p.pos, vel |-> p.vel, width |-> p.width, height |-> p.height]

\* the double of v hundredths of a pixel
pixels(v) == over(Number(v), Number(Scale))

\* Vector2D.distanceTo of two positions in doubles
distanceTo(this, other) ==
    LET dx == minus(other.x, this.x)
        dy == minus(other.y, this.y)
    IN  sqrt(plus(times(dx, dx), times(dy, dy)))

\* the condition under which ArrowUp opens the door in handleKeyPressed:
\* pos.x >= door.pos.x and pos.distanceTo(door.pos) < width.  The distance
\* is computed in doubles.  The exact squares of the distance and of the
\* width are integers, in hundredths, and the roundings of the computed
\* distance are far below the hundredth that separates two different
\* ones, so the roundings decide the comparison only where the two squares
\* are equal; elsewhere the exact squares decide it.
nearDoor(p, list) ==
    LET i == findByConstructorName(list, "Door")
        square == (list[i].pos.x - p.pos.x) * (list[i].pos.x - p.pos.x)
                     + (list[i].pos.y - p.pos.y) * (list[i].pos.y - p.pos.y)
    IN  /\ i # 0
        /\ p.pos.x >= list[i].pos.x
        /\ IF square # p.width * p.width THEN square < p.width * p.width
           ELSE less(distanceTo(Vector2D(pixels(p.pos.x), pixels(p.pos.y)),
                                Vector2D(pixels(list[i].pos.x),
                                         pixels(list[i].pos.y))),
                     pixels(p.width))

\* handleKeyPressed on a player with its sprite
keyPressedTimed(p, key, list) ==
    LET q == keyPressed(p, key)
    IN  CASE key = "ArrowLeft" ->
                [q EXCEPT !.sprite = swapSprite(@, "runLeft"),
                          !.direction = "left"]
          [] key = "ArrowRight" ->
                [q EXCEPT !.sprite = swapSprite(@, "runRight"),
                          !.direction = "right"]
          [] key = "ArrowUp" /\ nearDoor(q, list) ->
                [q EXCEPT !.sprite = swapSprite(@, "enterDoor")]
          [] key = "a" -> [q EXCEPT !.sprite = swapSprite(@, "attack")]
          [] OTHER -> q

\* handleKeyReleased on a player with its sprite: the player is stopped and
\* its sheet swapped for the idle sheet of the direction it faces
keyReleasedTimed(p, key) ==
    IF key \in {"ArrowRight", "ArrowLeft", "ArrowUp", "a"}
    THEN LET q == keyReleased(p, key)
         IN  [q EXCEPT !.sprite =
                  swapSprite(@, IF q.direction = "left" THEN "idle_left"
                                ELSE "idle_right")]
    ELSE p

InitTimed ==
    \E level \in {LEVELS[id] : id \in LevelIds} :
        /\ blocks = initHearts(initBlocks(level))
        /\ player = PlayerWithSprite(initPlayer(initBlocks(level)))
        /\ pc = 0
        /\ pending = requestAnimationFrame(0)
        /\ call = noCall

handleKeyPressedTimed ==
    /\ pc = 0
    /\ \E key \in Keys : player' = keyPressedTimed(player, key, blocks)
    /\ UNCHANGED <<blocks, pc, pending, call>>

\* keyup listener
handleKeyReleasedTimed ==
    /\ pc = 0
    /\ \E key \in Keys : player' = keyReleasedTimed(player, key)
    /\ UNCHANGED <<blocks, pc, pending, call>>

\* animate(timeStamp) calls render with the time since the last frame:
\* render draws the player, advances its sprite and reaches player.update
renderTimed ==
    /\ pc = 0
    /\ pending > 0
    /\ InCanvas(player)
    /\ \E deltaTime \in DeltaTimes :
          player' = playerAnimate(player, deltaTime)
    /\ pc' = 1
    /\ pending' = pending - 1
    /\ UNCHANGED <<blocks, call>>

NextTimed ==
    \/ handleKeyPressedTimed \/ handleKeyReleasedTimed
    \/ renderTimed \/ updateStep

SpecTimed == InitTimed /\ [][NextTimed]_vars

(***************************************************************************)
(* One Vector2D call on a receiver drawn from the vectors whose components *)
(* are the integers and the tenths up to MaxComponent; a tenth is the      *)
(* double that the quotient n / 10 gives.                                  *)
(***************************************************************************)
Components ==
    {over(Number(n), Number(d)) :
        n \in -MaxComponent..MaxComponent, d \in {1, 10}}

Vectors == {Vector2D(x, y) : x, y \in Components}

Units == {Number(-1), Zero, Number(1)}

SmallVectors == {Vector2D(x, y) : x, y \in Units}

\* the state after the call op of the receiver call.this
Called(op, argument, scalar, outcome) ==
    [op |-> op, receiver |-> call.this, argument |-> argument,
     scalar |-> scalar, this |-> outcome.this, other |-> outcome.other,
     result |-> outcome.result, instance |-> outcome.instance,
     thrown |-> outcome.thrown]

InitVector ==
    /\ blocks = <<>>
    /\ player = initPlayer(blocks)
    /\ pc = 0
    /\ pending = 0
    /\ \E v \in Vectors : call = [op |-> "none", this |-> v]

callAdd ==
    /\ call.op = "none"
    /\ \E other \in SmallVectors :
          call' = Called("add", other, Zero, addCall(call.this, other))
    /\ UNCHANGED <<player, blocks, pc, pending>>

callSubtract ==
    /\ call.op = "none"
    /\ \E other \in SmallVectors :
          call' = Called("subtract", other, Zero, subtractCall(call.this, other))
    /\ UNCHANGED <<player, blocks, pc, pending>>

callMultiply ==
    /\ call.op = "none"
    /\ \E scalar \in Components :
          call' = Called("multiply", call.this, scalar,
                         multiplyCall(call.this, scalar))
    /\ UNCHANGED <<player, blocks, pc, pending>>

callScale ==
    /\ call.op = "none"
    /\ \E scalar \in Components :
          call' = Called("scale", call.this, scalar, scaleCall(call.this, scalar))
    /\ UNCHANGED <<player, blocks, pc, pending>>

callDivide ==
    /\ call.op = "none"
    /\ \E scalar \in Components :
          call' = Called("divide", call.this, scalar,
                         divideCall(call.this, scalar))
    /\ UNCHANGED <<player, blocks, pc, pending>>

callNormalize ==
    /\ call.op = "none"
    /\ call' = Called("normalize", call.this, Zero, normalizeCall(call.this))
    /\ UNCHANGED <<player, blocks, pc, pending>>

callRotate ==
    /\ call.op = "none"
    /\ \E angle \in Angles :
          call' = Called("rotate", call.this, angle,
                         rotateCall(call.this, angle))
    /\ UNCHANGED <<player, blocks, pc, pending>>

callPerpendicularTo ==
    /\ call.op = "none"
    /\ \E clockwise \in BOOLEAN :
          call' = Called("perpendicularTo", call.this,
                         IF clockwise THEN Number(1) ELSE Zero,
                         perpendicularToCall(call.this, clockwise))
    /\ UNCHANGED <<player, blocks, pc, pending>>

callProjectOnto ==
    /\ call.op = "none"
    /\ \E other \in SmallVectors :
          call' = Called("projectOnto", other, Zero,
                         projectOntoCall(call.this, other))
    /\ UNCHANGED <<player, blocks, pc, pending>>

callMultiplyDivide ==
    /\ call.op = "none"
    /\ \E scalar \in Components :
          call' = Called("multiplyDivide", call.this, scalar,
                         multiplyDivideCall(call.this, scalar))
    /\ UNCHANGED <<player, blocks, pc, pending>>

NextVector ==
    \/ callAdd \/ callSubtract \/ callMultiply \/ callScale \/ callDivide
    \/ callNormalize \/ callRotate \/ callPerpendicularTo
    \/ callProjectOnto \/ callMultiplyDivide

SpecVector == InitVector /\ [][NextVector]_vars

(***************************************************************************)
(* The game with the door of its level.  A Door carries the flag open,     *)
(* which ArrowUp sets when the player stands at the door and which the     *)
(* release of ArrowUp clears: the key handlers write an entry of the block *)
(* list.  The sprites of the door and of the hearts, which render          *)
(* advances, are left out.                                                 *)
(***************************************************************************)
\* the entries of a list, each Door with the flag its constructor sets
withDoorFlag(list) ==
    [i \in 1..Len(list) |->
        IF list[i].kind = "Door"
        THEN [kind |-> "Door", pos |-> list[i].pos, open |-> FALSE]
        ELSE list[i]]

\* variant: the door is taken out of the list and pushed again with its flag
setOpenPushesDoor(list, open) ==
    LET i == findByConstructorName(list, "Door")
    IN  SubSeq(list, 1, i - 1) \o SubSeq(list, i + 1, Len(list))
        \o <<[list[i] EXCEPT !.open = open]>>

\* door.open = open on the first Door of a list that has one
setOpen(list, open) ==
    LET i == findByConstructorName(list, "Door")
    IN  [list EXCEPT ![i].open = open]

InitDoor ==
    \E level \in {LEVELS[id] : id \in LevelIds} :
        /\ blocks = withDoorFlag(initHearts(initBlocks(level)))
        /\ player = initPlayer(initBlocks(level))
        /\ pc = 0
        /\ pending = requestAnimationFrame(0)
        /\ call = noCall

\* keydown listener: ArrowUp opens the door the player stands at
handleKeyPressedDoor ==
    /\ pc = 0
    /\ \E key \in Keys :
          /\ player' = keyPressed(player, key)
          /\ blocks' = IF key = "ArrowUp" /\ nearDoor(player, blocks)
                       THEN setOpen(blocks, TRUE)
                       ELSE blocks
    /\ UNCHANGED <<pc, pending, call>>

\* keyup listener: the release of ArrowUp closes the door; in a level
\* without a Door the assignment throws after the player has been stopped
handleKeyReleasedDoor ==
    /\ pc = 0
    /\ \E key \in Keys :
          /\ player' = keyReleased(player, key)
          /\ blocks' = IF key = "ArrowUp"
                          /\ findByConstructorName(blocks, "Door") # 0
                       THEN setOpen(blocks, FALSE)
                       ELSE blocks
    /\ UNCHANGED <<pc, pending, call>>

NextDoor ==
    handleKeyPressedDoor \/ handleKeyReleasedDoor \/ render \/ updateStep

SpecDoor == InitDoor /\ [][NextDoor]_vars

(***************************************************************************)
(* GAME.start on a level table.  The tables are the levels above and every *)
(* table of XCount x YCount cells in which at most two cells are not 0;    *)
(* a cell holds one of the three flags or the number of a tile that means  *)
(* nothing to initBlocks.                                                  *)
(***************************************************************************)
Flags == {FlagCollision, FlagSpawn, FlagDoor}

CellValues == {0, 1} \cup Flags

Cells == (0 .. YCount - 1) \X (0 .. XCount - 1)

\* the table with va in cell a and vb in cell b, cells given as <<row, col>>
tableWith(a, va, b, vb) ==
    [row \in 0 .. YCount - 1 |->
        [col \in 0 .. XCount - 1 |->
            IF <<row, col>> = b THEN vb
            ELSE IF <<row, col>> = a THEN va
            ELSE 0]]

StartLevels ==
    {LEVELS[id] : id \in {1} \cup LevelIds}
    \cup {Level(XCount, YCount, tableWith(a, va, b, vb)) :
             a \in Cells, va \in CellValues, b \in Cells, vb \in CellValues}

\* the load listener before GAME.start: no list yet
InitLevels ==
    \E level \in StartLevels :
        /\ blocks = <<>>
        /\ player = initPlayer(blocks)
        /\ pc = 0
        /\ pending = 0
        /\ call = [op |-> "start", level |-> level]

\* GameEngine.start: initBlocks, initPlayer, initHearts
start ==
    /\ call.op = "start"
    /\ blocks = <<>>
    /\ blocks' = initHearts(initBlocks(call.level))
    /\ player' = initPlayer(initBlocks(call.level))
    /\ UNCHANGED <<pc, pending, call>>

NextLevels == start

SpecLevels == InitLevels /\ [][NextLevels]_vars

(***************************************************************************)
(* The earlier iterations of the game.  The player is a RectangleHitbox    *)
(* that starts at (0, 0); render draws it, moves it by its velocity,       *)
(* clamps it to the four sides of the canvas and applies gravity.  The     *)
(* blocks of the second iteration are drawn and never tested.  The jump of *)
(* the first iteration has no test of vel.y and the jump of the second is  *)
(* the one of the final iteration; the key release stops the body for the  *)
(* two arrow keys only.  Jumps of the first iteration are followed while   *)
(* the upward speed stays within MaxRepeat jumps.                          *)
(***************************************************************************)
Iterations == {"first", "second"}

RectangleHitbox(w, h) ==
    [pos |-> Vector2D(0, 0), vel |-> Vector2D(0, 0), width |-> w, height |-> h]

\* RectangleHitbox.update: pos = pos.add(vel)
updateEarlier(p) == [p EXCEPT !.pos = add(p.pos, p.vel)]

\* variant: the clamp does not act on the top side
checkCanvasCollisionEarlierNoTop(p) ==
    LET hasHitLeftSide == p.pos.x <= 0
        hasHitRightSide == p.pos.x + p.width >= canvasWidth
        hasHitDownSide == p.pos.y + p.height >= canvasHeight
        p1 == IF hasHitLeftSide THEN [p EXCEPT !.pos.x = 0, !.vel.x = 0] ELSE p
        p3 == IF hasHitRightSide
              THEN [p1 EXCEPT !.vel.x = 0, !.pos.x = canvasWidth - p1.width]
              ELSE p1
    IN  IF hasHitDownSide
        THEN [p3 EXCEPT !.vel.y = 0, !.pos.y = canvasHeight - p3.height]
        ELSE p3

\* GameEngine.checkCanvasCollision of the earlier iterations: four sides,
\* all tested on the position the body has when the method is called
checkCanvasCollisionEarlier(p) ==
    LET hasHitLeftSide == p.pos.x <= 0
        hasHitUpSide == p.pos.y <= 0
        hasHitRightSide == p.pos.x + p.width >= canvasWidth
        hasHitDownSide == p.pos.y + p.height >= canvasHeight
        p1 == IF hasHitLeftSide THEN [p EXCEPT !.pos.x = 0, !.vel.x = 0] ELSE p
        p2 == IF hasHitUpSide THEN [p1 EXCEPT !.vel.y = 0, !.pos.y = 0] ELSE p1
        p3 == IF hasHitRightSide
              THEN [p2 EXCEPT !.vel.x = 0, !.pos.x = canvasWidth - p2.width]
              ELSE p2
    IN  IF hasHitDownSide
        THEN [p3 EXCEPT !.vel.y = 0, !.pos.y = canvasHeight - p3.height]
        ELSE p3

\* the part of render that acts on the player: update, the clamp, gravity
renderPlayerEarlier(p) ==
    applyGravity(checkCanvasCollisionEarlier(updateEarlier(p)))

\* Player.jump of the first iteration
jumpFirst(p) == [p EXCEPT !.vel = add(p.vel, Vector2D(0, jumpFactor))]

keyPressedEarlier(p, key, iteration) ==
    CASE key = " " -> IF iteration = "first" THEN jumpFirst(p) ELSE jump(p)
      [] key = "ArrowRight" -> move(p, "ArrowRight")
      [] key = "ArrowLeft" -> move(p, "ArrowLeft")
      [] OTHER -> p

keyReleasedEarlier(p, key) ==
    IF key \in {"ArrowRight", "ArrowLeft"} THEN stop(p) ELSE p

\* initCollisionBlocks: a CollisionBlock for every cell that holds the flag
initCollisionBlocks(level) == SelectSeq(initBlocks(level), isCollisionBlock)

InitEarlier ==
    \E iteration \in Iterations :
        /\ call = [op |-> "earlier", iteration |-> iteration]
        /\ blocks = IF iteration = "first" THEN <<>>
                    ELSE initCollisionBlocks(LEVELS[3])
        /\ player = RectangleHitbox(PlayerWidthPx * Scale, PlayerHeightPx * Scale)
        /\ pc = 0
        /\ pending = requestAnimationFrame(0)

handleKeyPressedEarlier ==
    /\ \E key \in Keys :
          /\ (key = " " /\ call.iteration = "first") =>
                 player.vel.y + jumpFactor >= MaxRepeat * jumpFactor
          /\ player' = keyPressedEarlier(player, key, call.iteration)
    /\ UNCHANGED <<blocks, pc, pending, call>>

handleKeyReleasedEarlier ==
    /\ \E key \in Keys : player' = keyReleasedEarlier(player, key)
    /\ UNCHANGED <<blocks, pc, pending, call>>

\* the animation-frame callback: render, then the request of the next one
animateEarlier ==
    /\ pending > 0
    /\ player' = renderPlayerEarlier(player)
    /\ pending' = requestAnimationFrame(pending - 1)
    /\ UNCHANGED <<blocks, pc, call>>

NextEarlier ==
    handleKeyPressedEarlier \/ handleKeyReleasedEarlier \/ animateEarlier

SpecEarlier == InitEarlier /\ [][NextEarlier]_vars

(***************************************************************************)
(* Properties.                                                             *)
(***************************************************************************)
solidIndices == {i \in 1..Len(blocks) : blocks[i].kind = "CollisionBlock"}

\* C1: every call of Player.update runs pos.x += vel.x, the X resolution,
\* applyGravity, pos.y += vel.y and the Y resolution, in this order, and
\* neither vel.y nor pos.y changes before the X resolution has completed.
C1_UpdateOrder ==
    [][/\ pc = 1 => player' = integrateX(player) /\ pc' = 2
       /\ pc = 2 => player' = checkCollisionXaxis(player, blocks) /\ pc' = 3
       /\ pc = 3 => player' = applyGravity(player) /\ pc' = 4
       /\ pc = 4 => player' = integrateY(player) /\ pc' = 5
       /\ pc = 5 => player' = checkCollisionYaxis(player, blocks) /\ pc' = 0
       /\ pc \in {1, 2} => /\ player'.vel.y = player.vel.y
                           /\ player'.pos.y = player.pos.y]_vars

\* a diagonal move whose X part is resolved and whose Y pass is about to run
C1_Witness == pc = 5 /\ player.vel.x # 0 /\ player.vel.y # 0

\* the overlap test as the specification words it, for a block with extent
InclusiveOverlap(p, block) ==
    /\ p.pos.x <= block.pos.x + block.w
    /\ p.pos.x + p.width >= block.pos.x
    /\ p.pos.y + p.height >= block.pos.y
    /\ p.pos.y <= block.pos.y + block.h

\* indices of the solid blocks the body overlaps, and the first of them
overlapping(p) == {i \in solidIndices : InclusiveOverlap(p, blocks[i])}

Min(S) == CHOOSE i \in S : \A j \in S : i <= j

\* C2 as stated: at the end of every frame the body overlaps no solid block.
C2_NoOverlapAtFrameEnd ==
    pc = 0 => \A i \in solidIndices : ~InclusiveOverlap(player, blocks[i])

\* C3 as stated: at the end of every frame the body is inside the left, top
\* and right canvas bounds.
C3_ClampedAtFrameEnd ==
    pc = 0 => /\ player.pos.x >= 0
              /\ player.pos.y >= 0
              /\ player.pos.x + player.width <= canvasWidth

\* applyGravity repeated n times
RECURSIVE applyGravityTimes(_, _)
applyGravityTimes(p, n) ==
    IF n = 0 THEN p ELSE applyGravityTimes(applyGravity(p), n - 1)

\* Player.update repeated k times, without input in between
RECURSIVE updateTimes(_, _)
updateTimes(p, k) ==
    IF k = 0 THEN p ELSE updateTimes(update(p, blocks), k - 1)

\* a frame from p is airborne and free of collision: the gravity call finds
\* the bottom above the floor and neither pass finds an overlapping block
quietFrame(p) ==
    LET a == integrateX(p)
        c == integrateY(applyGravity(a))
    IN  /\ overlapping(a) = {}
        /\ a.pos.y + a.height < canvasHeight
        /\ overlapping(c) = {}

RECURSIVE quietFrames(_, _)
quietFrames(p, k) ==
    k = 0 \/ (quietFrame(p) /\ quietFrames(update(p, blocks), k - 1))

\* C4: applyGravity adds the gravity vector to the velocity exactly when
\* pos.y + height < worldHeight and otherwise sets vel.y = 0 and
\* pos.y = worldHeight - height; over k consecutive airborne frames without
\* collision or input vel.y grows by exactly k * gravity.y.
C4_GravityStep ==
    /\ [](pc = 0 => \A k \in 1..MaxRepeat :
              quietFrames(player, k)
                 => updateTimes(player, k).vel.y = player.vel.y + k * gravity.y)
    /\ [][pc = 3 =>
            IF player.pos.y + player.height < canvasHeight
            THEN /\ player'.vel.x = player.vel.x + gravity.x
                 /\ player'.vel.y = player.vel.y + gravity.y
                 /\ player'.pos = player.pos
            ELSE /\ player'.vel.y = 0
                 /\ player'.pos.y = canvasHeight - player.height]_vars

\* the body is falling and has MaxRepeat airborne frames without collision
\* ahead of it
C4_Witness ==
    /\ pc = 0
    /\ player.vel.y > 0
    /\ quietFrames(player, MaxRepeat)

\* C5: applyGravity changes neither vel.x nor pos.x, in either branch.
C5_GravityKeepsX ==
    [][pc = 3 => /\ player'.vel.x = player.vel.x
                 /\ player'.pos.x = player.pos.x]_vars

\* the floor branch has just run on a body that moves sideways
C5_Witness ==
    /\ pc = 4
    /\ player.pos.y + player.height = canvasHeight
    /\ player.vel.y = 0
    /\ player.vel.x # 0

\* C6: once pos.y + height >= worldHeight, any number of applyGravity calls
\* leaves vel.y = 0 and pos.y = worldHeight - height.
C6_FloorFixedPoint ==
    player.pos.y + player.height >= canvasHeight
       => \A n \in 1..MaxRepeat :
             LET q == applyGravityTimes(player, n)
             IN  /\ q.vel.y = 0
                 /\ q.pos.y = canvasHeight - q.height

\* the body has sunk below the floor while falling, before the gravity call
C6_Witness ==
    /\ pc = 3
    /\ player.pos.y + player.height > canvasHeight
    /\ player.vel.y > 0

\* C7 as stated: at the end of every frame the bottom of the body is not
\* below the floor.
C7_NeverBelowFloor ==
    pc = 0 => player.pos.y + player.height <= canvasHeight

\* C8: both passes treat the body and a block as overlapping iff the four
\* inclusive inequalities hold: the X pass moves the body iff vel.x is not 0
\* and some block satisfies them, the Y pass zeroes vel.y (and moves the
\* body when vel.y is not 0) iff some block satisfies them.
C8_InclusiveOverlap ==
    [][/\ pc = 2 =>
            ((player'.pos.x # player.pos.x)
                <=> (player.vel.x # 0 /\ overlapping(player) # {}))
       /\ pc = 5 =>
            IF overlapping(player) # {}
            THEN /\ player'.vel.y = 0
                 /\ player.vel.y # 0 => player'.pos.y # player.pos.y
            ELSE player' = player]_vars

\* the X pass has snapped the body against a block whose bottom edge the
\* body's top edge exactly touches
C8_Witness ==
    /\ pc = 3
    /\ \E i \in solidIndices :
          /\ player.pos.y = blocks[i].pos.y + blocks[i].h
          /\ player.pos.x + player.width + Epsilon = blocks[i].pos.x

\* C9: each pass acts on the first overlapping block in list order and on
\* no other block, also when that block causes no snap.
C9_FirstMatchOnly ==
    [][/\ pc = 2 =>
            player' = IF overlapping(player) = {} THEN player
                      ELSE resolveX(player, blocks[Min(overlapping(player))])
       /\ pc = 5 =>
            player' = IF overlapping(player) = {} THEN player
                      ELSE resolveY(player, blocks[Min(overlapping(player))])]_vars

\* the Y pass has snapped the body below one block and left it inside a
\* later block of the list
C9_Witness ==
    /\ pc = 0
    /\ \E i, j \in solidIndices :
          /\ i < j
          /\ player.pos.y = blocks[i].pos.y + blocks[i].h + Epsilon
          /\ player.pos.x <= blocks[i].pos.x + blocks[i].w
          /\ player.pos.x + player.width >= blocks[i].pos.x
          /\ InclusiveOverlap(player, blocks[j])

\* the example of the specification: a 50 pixel wide body moving right into
\* a block at x = 100 ends at 49.99
C10_Example ==
    LET body == [pos |-> Vector2D(55 * Scale, 0),
                 vel |-> Vector2D(5 * Scale, 0),
                 width |-> 50 * Scale, height |-> 50 * Scale]
        wall == CollisionBlock(100 * Scale, 0, 64 * Scale, 64 * Scale)
    IN  checkCollisionXaxis(body, <<wall>>)
           = [body EXCEPT !.pos.x = 50 * Scale - Epsilon]

\* C10: on the first overlapping block the X pass sets
\* pos.x = block.x + block.w + 0.01 when vel.x < 0 and
\* pos.x = block.x - width - 0.01 when vel.x > 0, and leaves vel.x, vel.y
\* and pos.y unchanged.
C10_SnapX ==
    [][(pc = 2 /\ overlapping(player) # {}) =>
          LET block == blocks[Min(overlapping(player))]
          IN  /\ player.vel.x < 0 =>
                    player'.pos.x = block.pos.x + block.w + Epsilon
              /\ player.vel.x > 0 =>
                    player'.pos.x = block.pos.x - player.width - Epsilon
              /\ player'.vel = player.vel
              /\ player'.pos.y = player.pos.y
              /\ C10_Example]_vars

\* the X pass has snapped a body that moves left to the right side of a block
C10_Witness ==
    /\ pc = 3
    /\ player.vel.x < 0
    /\ \E i \in solidIndices :
          /\ player.pos.x = blocks[i].pos.x + blocks[i].w + Epsilon
          /\ player.pos.y + player.height >= blocks[i].pos.y
          /\ player.pos.y <= blocks[i].pos.y + blocks[i].h

\* the example of the specification: a 50 pixel high body falling with
\* vel.y = 10 into a block whose top is at y = 200 ends at 149.99, at rest
C11_Example ==
    LET body == [pos |-> Vector2D(0, 155 * Scale),
                 vel |-> Vector2D(5 * Scale, 10 * Scale),
                 width |-> 50 * Scale, height |-> 50 * Scale]
        ground == CollisionBlock(0, 200 * Scale, 64 * Scale, 64 * Scale)
    IN  checkCollisionYaxis(body, <<ground>>)
           = [body EXCEPT !.pos.y = 150 * Scale - Epsilon, !.vel.y = 0]

\* C11: on the first overlapping block the Y pass sets
\* pos.y = block.y + block.h + 0.01 when vel.y < 0 and
\* pos.y = block.y - height - 0.01 when vel.y > 0, then sets vel.y = 0, also
\* when vel.y was 0 already and pos.y stays; pos.x and vel.x are unchanged.
C11_SnapY ==
    [][(pc = 5 /\ overlapping(player) # {}) =>
          LET block == blocks[Min(overlapping(player))]
          IN  /\ player.vel.y < 0 =>
                    player'.pos.y = block.pos.y + block.h + Epsilon
              /\ player.vel.y > 0 =>
                    player'.pos.y = block.pos.y - player.height - Epsilon
              /\ player.vel.y = 0 => player'.pos.y = player.pos.y
              /\ player'.vel.y = 0
              /\ player'.vel.x = player.vel.x
              /\ player'.pos.x = player.pos.x
              /\ C11_Example]_vars

\* the Y pass has snapped a rising body to the bottom side of a block and
\* stopped its rise while the body keeps moving sideways
C11_Witness ==
    /\ pc = 0
    /\ player.vel.y = 0
    /\ player.vel.x # 0
    /\ \E i \in solidIndices :
          /\ player.pos.y = blocks[i].pos.y + blocks[i].h + Epsilon
          /\ player.pos.x <= blocks[i].pos.x + blocks[i].w
          /\ player.pos.x + player.width >= blocks[i].pos.x

\* the body as the X pass of the next frame may find it when the frame ended
\* with q: key events between the frames change the velocity only, vel.x to
\* 0 or to plus or minus speedFactor, and pos.x += vel.x precedes the pass
nextXPassInputs(q) ==
    {integrateX([q EXCEPT !.vel.x = vx]) :
        vx \in {q.vel.x, 0, -speedFactor, speedFactor}}

\* C12: right after a snap against block B in either pass the inclusive
\* overlap test between the body and B is false, and B does not overlap the
\* body when the next resolution call runs: the Y pass of the same frame
\* after a snap of the X pass, the X pass of the next frame after a snap of
\* the Y pass.
C12_NoReselection ==
    /\ [](pc = 2 /\ overlapping(player) # {} /\ player.vel.x # 0 =>
            LET B == blocks[Min(overlapping(player))]
                q == checkCollisionXaxis(player, blocks)
            IN  /\ ~InclusiveOverlap(q, B)
                /\ ~InclusiveOverlap(integrateY(applyGravity(q)), B))
    /\ [](pc = 5 /\ overlapping(player) # {} /\ player.vel.y # 0 =>
            LET B == blocks[Min(overlapping(player))]
                q == checkCollisionYaxis(player, blocks)
            IN  /\ ~InclusiveOverlap(q, B)
                /\ \A r \in nextXPassInputs(q) : ~InclusiveOverlap(r, B))
    /\ [][/\ (pc = 2 /\ overlapping(player) # {} /\ player.vel.x # 0) =>
              ~InclusiveOverlap(player', blocks[Min(overlapping(player))])
          /\ (pc = 5 /\ overlapping(player) # {} /\ player.vel.y # 0) =>
              ~InclusiveOverlap(player', blocks[Min(overlapping(player))])]_vars

\* the Y pass is about to run on a body that moves left and stands one bias
\* to the right of a block whose vertical extent it shares
C12_Witness ==
    /\ pc = 5
    /\ player.vel.x < 0
    /\ \E i \in solidIndices :
          /\ player.pos.x = blocks[i].pos.x + blocks[i].w + Epsilon
          /\ player.pos.y + player.height >= blocks[i].pos.y
          /\ player.pos.y <= blocks[i].pos.y + blocks[i].h

\* C13: when no block of the list overlaps the body, the X pass and the Y
\* pass leave pos and vel exactly as the integration before them left them.
C13_NoOverlapNoChange ==
    [][(pc \in {2, 5} /\ overlapping(player) = {}) =>
          /\ player'.pos = player.pos
          /\ player'.vel = player.vel]_vars

\* a frame of a level with solid blocks has ended on a body that falls
\* sideways: gravity has acted, and the Y pass found no block, else vel.y
\* would be 0
C13_Witness ==
    /\ pc = 0
    /\ solidIndices # {}
    /\ overlapping(player) = {}
    /\ player.vel.x # 0
    /\ player.vel.y > 0

\* C14: checkCanvasCollision sets pos.x = 0 and vel.x = 0 when pos.x <= 0,
\* sets pos.y = 0 and vel.y = 0 when pos.y <= 0, sets
\* pos.x = worldWidth - width and vel.x = 0 when pos.x + width >= worldWidth,
\* and changes nothing when none of the three conditions holds.
C14_CanvasClamp ==
    LET q == checkCanvasCollision(player)
        hitLeft == player.pos.x <= 0
        hitUp == player.pos.y <= 0
        hitRight == player.pos.x + player.width >= canvasWidth
    IN  /\ hitLeft => q.pos.x = 0 /\ q.vel.x = 0
        /\ hitUp => q.pos.y = 0 /\ q.vel.y = 0
        /\ hitRight => q.pos.x = canvasWidth - player.width /\ q.vel.x = 0
        /\ (~hitLeft /\ ~hitUp /\ ~hitRight) => q = player

\* the body has left the canvas through its upper right corner, rising and
\* moving right
C14_Witness ==
    /\ player.pos.x + player.width > canvasWidth
    /\ player.pos.y < 0
    /\ player.vel.x > 0
    /\ player.vel.y < 0

\* C15: checkCanvasCollision never clamps the bottom side: for a body with
\* pos.y > 0 it leaves pos.y and vel.y unchanged, wherever pos.y + height
\* lies relative to worldHeight.
C15_BottomNotClamped ==
    player.pos.y > 0 =>
        LET q == checkCanvasCollision(player)
        IN  q.pos.y = player.pos.y /\ q.vel.y = player.vel.y

\* the body has fallen through the bottom side of the canvas and still falls
C15_Witness ==
    /\ player.pos.y > 0
    /\ player.pos.y + player.height > canvasHeight
    /\ player.vel.y > 0

\* C16: checkCanvasCollision is idempotent: applied twice in a row it gives
\* the pos and vel it gives when applied once.
C16_ClampIdempotent ==
    LET q == checkCanvasCollision(player)
        r == checkCanvasCollision(q)
    IN  r.pos = q.pos /\ r.vel = q.vel

\* the body is left of the canvas and keeps moving left, so that the first
\* application changes both pos.x and vel.x
C16_Witness ==
    /\ player.pos.x < 0
    /\ player.vel.x < 0
    /\ checkCanvasCollision(player) # player

\* C17: a jump is honoured only when vel.y = 0: then vel.y becomes jumpFactor
\* and vel.x is kept; when vel.y is not 0 a jump leaves pos and vel
\* unchanged.  No other key event makes vel.y negative.
C17_JumpOnlyAtRest ==
    /\ [](pc = 0 =>
            jump(player) = IF player.vel.y = 0
                           THEN [player EXCEPT !.vel.y = jumpFactor]
                           ELSE player)
    /\ [][(pc = 0 /\ pc' = 0 /\ player'.vel.y < 0
                  /\ player'.vel.y # player.vel.y) =>
              /\ player.vel.y = 0
              /\ player'.vel.y = jumpFactor
              /\ player'.vel.x = player.vel.x
              /\ player'.pos = player.pos]_vars

\* a jump has just been honoured on a body that moves sideways: no frame
\* has run since, or gravity would have changed vel.y
C17_Witness ==
    /\ pc = 0
    /\ player.vel.y = jumpFactor
    /\ player.vel.x # 0

\* C18: a move to the left assigns vel.x = -speedFactor and a move to the
\* right assigns vel.x = speedFactor, so that a repeated move changes nothing
\* more; neither changes vel.y or pos.  No other key event gives vel.x a
\* new value other than 0.
C18_MoveAssigns ==
    /\ [](pc = 0 =>
            LET left == move(player, "ArrowLeft")
                right == move(player, "ArrowRight")
            IN  /\ left = [player EXCEPT !.vel.x = -speedFactor]
                /\ right = [player EXCEPT !.vel.x = speedFactor]
                /\ move(left, "ArrowLeft") = left
                /\ move(right, "ArrowRight") = right)
    /\ [][(pc = 0 /\ pc' = 0 /\ player'.vel.x # 0
                  /\ player'.vel.x # player.vel.x) =>
              /\ player'.vel.x \in {-speedFactor, speedFactor}
              /\ player'.vel.y = player.vel.y
              /\ player'.pos = player.pos]_vars

\* the body turns around in the air: it falls one bias to the right of a
\* block that stopped its move to the left, and moves right now
C18_Witness ==
    /\ pc = 0
    /\ player.vel.x = speedFactor
    /\ player.vel.y > 0
    /\ \E i \in solidIndices :
          player.pos.x = blocks[i].pos.x + blocks[i].w + Epsilon

\* the solid blocks in the column of the body, at its height or lower
blocksBelow(p) ==
    {i \in solidIndices :
        /\ p.pos.x <= blocks[i].pos.x + blocks[i].w
        /\ p.pos.x + p.width >= blocks[i].pos.x
        /\ p.pos.y <= blocks[i].pos.y + blocks[i].h}

onFloor(p) == p.pos.y = canvasHeight - p.height /\ p.vel.y = 0

\* C19: without input, a body that starts at rest in the air with no block
\* below it eventually has pos.y = worldHeight - height and vel.y = 0, and
\* from then on every frame leaves it there.
C19_FallsToFloorAndStays ==
    (blocksBelow(player) = {}) => <>[]onFloor(player)

\* a frame has ended with the body on the floor of a level with solid
\* blocks, beside them
C19_Witness ==
    /\ pc = 0
    /\ onFloor(player)
    /\ solidIndices # {}
    /\ blocksBelow(player) = {}

\* C20 as stated: a body that moves left with vel.x = -speedFactor has
\* pos.x = 0 and vel.x = 0 at the end of the frame in which it would cross
\* x = 0, and pos.x is not negative at the end of any frame.
C20_LeftBoundHolds ==
    pc = 0 =>
        /\ player.pos.x >= 0
        /\ (player.vel.x = -speedFactor /\ player.pos.x + player.vel.x <= 0) =>
              LET q == update(player, blocks)
              IN  q.pos.x = 0 /\ q.vel.x = 0

\* C21: pos and vel after a frame depend only on pos and vel before it, the
\* block list, the gravity vector and the world bounds: whatever the frame
\* time and the state of the sprite, the frame and every key event act on
\* the body as they act on the body alone, so two runs with the same
\* frames and inputs and different frame times agree on pos and vel after
\* every frame.
C21_FrameIndexed ==
    /\ [](pc = 0 =>
            /\ \A deltaTime \in DeltaTimes :
                  Body(update(playerAnimate(player, deltaTime), blocks))
                     = update(Body(player), blocks)
            /\ \A key \in Keys :
                  /\ Body(keyPressedTimed(player, key, blocks))
                        = keyPressed(Body(player), key)
                  /\ Body(keyReleasedTimed(player, key))
                        = keyReleased(Body(player), key))
    /\ [][pc' # pc =>
            Body(player') =
               IF pc = 0 THEN Body(player)
               ELSE updateStatement(updateSteps[pc], Body(player), blocks)]_vars

\* frames of different length have run: the sprite shows a later frame with
\* a counter that only a short frame time leaves, and the body falls
C21_Witness ==
    /\ pc = 0
    /\ player.sprite.currentFrame > 0
    /\ player.sprite.animationCounter = 1
    /\ player.vel.y > 0

\* C22 as stated: pos and vel are written only by the animation-frame
\* callback, that is, only by the statements of a running update.
C22_OnlyFrameWrites ==
    [][(player'.pos # player.pos \/ player'.vel # player.vel)
          => pc \in 1..Len(updateSteps)]_vars

\* C22 amended: pos is written only by the animation-frame callback; the
\* key handlers write vel and nothing else of the body, and they run only
\* between two callbacks, so that no writer is interleaved with the
\* statements of a frame.
C22_NoInterleavedWriter ==
    [][/\ player'.pos # player.pos => pc \in 1..Len(updateSteps)
       /\ pc \in 1..Len(updateSteps) =>
             /\ player' = updateStatement(updateSteps[pc], player, blocks)
             /\ pc' = (pc + 1) % (Len(updateSteps) + 1)
       /\ (pc = 0 /\ player' # player) =>
             /\ pc' = 0
             /\ player' = [player EXCEPT !.vel = player'.vel]]_vars

\* a key handler has set vel.x between two callbacks and the next
\* callback has started
C22_Witness ==
    /\ pc = 1
    /\ player.vel.x = -speedFactor
    /\ player.vel.y # 0

\* C23: every animation callback runs render once to completion and then
\* requests exactly one further callback: while a frame runs no callback is
\* pending, between two frames exactly one is, so frames never overlap and
\* the loop does not stop by itself.
C23_OneFramePending ==
    /\ [](/\ pc = 0 => pending = 1
          /\ pc \in 1..Len(updateSteps) => pending = 0)
    /\ [][/\ (pc = 0 /\ pc' # 0) => pc' = 1 /\ pending' = pending - 1
          /\ pc \in 1..(Len(updateSteps) - 1) =>
                pc' = pc + 1 /\ pending' = pending
          /\ pc = Len(updateSteps) => pc' = 0 /\ pending' = pending + 1]_vars

\* a later frame is running, after at least one frame in which gravity
\* acted, and no callback is pending
C23_Witness ==
    /\ pc = 3
    /\ pending = 0
    /\ player.vel.y > 0

\* the product a * b is computed without rounding
exactProduct(a, b) ==
    times(a, b) = normal(a.s * b.s, product(a.m, b.m), a.e + b.e)

\* C24: divide(0) throws for every vector and returns nothing; divide(s)
\* with s other than 0 returns (x / s, y / s), which is the exact quotient
\* where s divides x or y; the receiver is unchanged in both cases.
C24_DivideThrowsOnZero ==
    call.op = "divide" =>
        /\ call.this = call.receiver
        /\ IF call.scalar = Zero
           THEN call.thrown /\ call.instance = "none"
           ELSE /\ ~call.thrown
                /\ call.result.x = over(call.receiver.x, call.scalar)
                /\ call.result.y = over(call.receiver.y, call.scalar)
                /\ \A k \in Components :
                      /\ (/\ exactProduct(k, call.scalar)
                          /\ call.receiver.x = times(k, call.scalar))
                            => call.result.x = k
                      /\ (/\ exactProduct(k, call.scalar)
                          /\ call.receiver.y = times(k, call.scalar))
                            => call.result.y = k

\* divide(0) has been called on a vector other than the zero vector
C24_Witness ==
    /\ call.op = "divide"
    /\ call.scalar = Zero
    /\ call.thrown
    /\ call.receiver.x # Zero
    /\ call.receiver.y # Zero

\* C25: normalize never throws: for a vector of magnitude 0 it returns
\* (0, 0) and for every other vector (x / mag, y / mag), which is a unit
\* vector of an axis for a vector along that axis.
C25_NormalizeNeverFails ==
    call.op = "normalize" =>
        LET v == call.receiver
            mag == magnitude(v)
        IN  /\ ~call.thrown
            /\ call.this = v
            /\ mag = Zero => call.result = Vector2D(Zero, Zero)
            /\ mag # Zero =>
                  call.result = Vector2D(over(v.x, mag), over(v.y, mag))
            /\ (v.y = Zero /\ less(Zero, v.x)) =>
                  call.result = Vector2D(Number(1), Zero)
            /\ (v.x = Zero /\ less(v.y, Zero)) =>
                  call.result = Vector2D(Zero, Number(-1))

\* normalize has been called on the zero vector
C25_Witness ==
    /\ call.op = "normalize"
    /\ call.receiver = Vector2D(Zero, Zero)
    /\ call.result = Vector2D(Zero, Zero)

\* scale(s) and multiply(s) return equal vectors
scaleIsMultiply ==
    call.op = "scale" =>
        /\ ~call.thrown
        /\ equals(call.result, multiplyCall(call.receiver, call.scalar).result)
        /\ call.result.x = times(call.receiver.x, call.scalar)
        /\ call.result.y = times(call.receiver.y, call.scalar)

\* C26 as stated: for every v and every s other than 0,
\* v.multiply(s).divide(s).equals(v), and scale(s) and multiply(s) return
\* equal vectors.
C26_RoundTrip ==
    /\ (call.op = "multiplyDivide" /\ call.scalar # Zero) =>
            ~call.thrown /\ equals(call.result, call.receiver)
    /\ scaleIsMultiply

\* C26 amended: v.multiply(s).divide(s).equals(v) for every v and every s
\* other than 0 whose products x * s and y * s are computed without
\* rounding; scale(s) and multiply(s) return equal vectors.
C26_RoundTripWhenExact ==
    /\ (/\ call.op = "multiplyDivide"
        /\ call.scalar # Zero
        /\ exactProduct(call.receiver.x, call.scalar)
        /\ exactProduct(call.receiver.y, call.scalar)) =>
            ~call.thrown /\ equals(call.result, call.receiver)
    /\ scaleIsMultiply

\* the round trip has been made with a scalar other than 0, 1 and -1 on a
\* vector without a zero component, and no product was rounded
C26_Witness ==
    /\ call.op = "multiplyDivide"
    /\ call.scalar \notin {Zero, Number(1), Number(-1)}
    /\ call.receiver.x # Zero
    /\ call.receiver.y # Zero
    /\ call.receiver.x # call.receiver.y
    /\ exactProduct(call.receiver.x, call.scalar)
    /\ exactProduct(call.receiver.y, call.scalar)

\* C27: no Vector2D operation changes the x or y of its receiver or of its
\* argument, and each returns a new instance.
C27_OperandsUnchanged ==
    call.op # "none" =>
        /\ call.this = call.receiver
        /\ call.op \in {"add", "subtract", "projectOnto"} =>
              call.other = call.argument
        /\ ~call.thrown => call.instance = "new"

\* add has been called with an argument that makes the sum differ from the
\* receiver in both components
C27_Witness ==
    /\ call.op = "add"
    /\ call.result.x # call.receiver.x
    /\ call.result.y # call.receiver.y
    /\ call.argument.x # call.argument.y

\* C28: after the level has been initialised, no frame and no key handler
\* changes a CollisionBlock: every entry of the list that is a CollisionBlock
\* keeps its place in the list, its position, its width and its height, no
\* entry becomes a CollisionBlock, and the list keeps its length, while the
\* handlers do write the Door of the list.
C28_SolidsNeverChange ==
    [][/\ Len(blocks') = Len(blocks)
       /\ \A i \in 1..Len(blocks) :
             /\ blocks[i].kind = "CollisionBlock" => blocks'[i] = blocks[i]
             /\ blocks'[i].kind = "CollisionBlock" =>
                   blocks[i].kind = "CollisionBlock"]_vars

\* the door of a level with solid blocks has been opened by ArrowUp, frames
\* have run and the body is falling
C28_Witness ==
    /\ solidIndices # {}
    /\ \E i \in 1..Len(blocks) :
          blocks[i].kind = "Door" /\ "open" \in DOMAIN blocks[i]
          /\ blocks[i].open
    /\ pc = 0
    /\ player.vel.y > 0


\* the cells of a level that hold one of the three flags, as <<col, row>>
flagged(level) ==
    {c \in (0 .. level.tiles.xCount - 1) \X (0 .. level.tiles.yCount - 1) :
        level.collisions[c[2]][c[1]] \in Flags}

\* cell c comes before cell d when the grid is read column by column, each
\* column from its top row down
before(c, d) == c[1] < d[1] \/ (c[1] = d[1] /\ c[2] < d[2])

\* C29: the list initBlocks builds has one entry for each cell holding 292,
\* 267 or 290 and none for any other cell, the entry of a cell standing
\* after the entries of all flagged cells that come before it column by
\* column; a body that overlaps several entries is resolved against the one
\* that comes first in this order; and the list of level 1 holds exactly one
\* SpawnPlace.
C29_ColumnMajorOrder ==
    (call.op = "start" /\ blocks # <<>>) =>
        LET level == call.level
            list == SubSeq(blocks, 1, Len(blocks) - Lives)
            cells == flagged(level)
            place(c) == Cardinality({d \in cells : before(d, c)}) + 1
            body(c) == [player EXCEPT !.pos = list[place(c)].pos,
                                      !.vel.y = Scale]
            hits(c) == {d \in cells : overlapsY(body(c), list[place(d)])}
        IN  /\ Len(list) = Cardinality(cells)
            /\ \A c \in cells :
                  <<list[place(c)]>> = cellBlocks(level, c[2], c[1])
            /\ \A c \in cells : \A d \in hits(c) :
                  (\A e \in hits(c) : e = d \/ before(d, e)) =>
                      checkCollisionYaxis(body(c), blocks)
                          = resolveY(body(c), list[place(d)])
            /\ level = LEVELS[1] =>
                  Cardinality({i \in 1..Len(list) :
                                  list[i].kind = "SpawnPlace"}) = 1

\* start has built the list of a table with two flagged cells of which the
\* one further left stands in the lower row, next to cells initBlocks skips
C29_Witness ==
    /\ call.op = "start"
    /\ blocks # <<>>
    /\ \E c, d \in flagged(call.level) :
          c[1] < d[1] /\ c[2] > d[2]
    /\ Cardinality(flagged(call.level)) = 2
    /\ Len(blocks) = 2 + Lives


\* the CollisionBlocks of a list, in the order of the list
collisionBlocksOf(list) == SelectSeq(list, isCollisionBlock)

\* the position of an entry lies within the box of the body, bounds included
covers(p, block) ==
    /\ p.pos.x <= block.pos.x
    /\ p.pos.x + p.width >= block.pos.x
    /\ p.pos.y <= block.pos.y
    /\ p.pos.y + p.height >= block.pos.y

\* C30: an entry of the block list that is not a CollisionBlock (SpawnPlace,
\* Door, Heart) never satisfies the overlap test of either pass, wherever
\* the body is, and both passes leave the body as they would if the list
\* held its CollisionBlocks only: such an entry never snaps the body, never
\* zeroes vel.y and never ends the scan before a later CollisionBlock.
C30_PointsNeverCollide ==
    /\ [](\A i \in 1..Len(blocks) :
             ~isCollisionBlock(blocks[i]) =>
                 ~overlapsX(player, blocks[i]) /\ ~overlapsY(player, blocks[i]))
    /\ [][/\ pc = 2 =>
               player' = checkCollisionXaxis(player, collisionBlocksOf(blocks))
          /\ pc = 5 =>
               player' = checkCollisionYaxis(player, collisionBlocksOf(blocks))
         ]_vars

\* the Y pass is about to run on a falling body whose box holds the
\* position of an entry that is not a CollisionBlock and that stands in the
\* list before a CollisionBlock
C30_Witness ==
    /\ pc = 5
    /\ player.vel.y > 0
    /\ \E i \in 1..Len(blocks) :
          /\ ~isCollisionBlock(blocks[i])
          /\ covers(player, blocks[i])
          /\ \E j \in solidIndices : i < j


\* the bottom edge of the body rests on the top of a solid block, at most
\* the bias above it, or on the floor of the world
supported(p) ==
    \/ p.pos.y + p.height = canvasHeight
    \/ \E i \in solidIndices :
          /\ p.pos.x <= blocks[i].pos.x + blocks[i].w
          /\ p.pos.x + p.width >= blocks[i].pos.x
          /\ p.pos.y + p.height <= blocks[i].pos.y
          /\ p.pos.y + p.height >= blocks[i].pos.y - Epsilon

\* C31 as stated: whenever a jump changes the velocity the body is
\* supported, on the top of a solid block or on the floor of the world; a
\* body in mid-air cannot jump.
C31_JumpOnlyWhenSupported ==
    [][(pc = 0 /\ pc' = 0 /\ player' = jump(player)
           /\ player'.vel # player.vel) => supported(player)]_vars


\* C32 as stated: stop changes the horizontal velocity only: after it
\* vel.x = 0, vel.y and pos are what they were, and on a body whose vel.y
\* is not 0 a jump that follows the stop is not honoured.
C32_StopKeepsVerticalVelocity ==
    pc = 0 =>
        LET q == stop(player)
        IN  /\ q.vel.x = 0
            /\ q.vel.y = player.vel.y
            /\ q.pos = player.pos
            /\ player.vel.y # 0 => jump(q) = q


\* the body has landed on block i: it rests one bias above its top with
\* vel.y = 0
landedOn(p, i) ==
    /\ p.vel.y = 0
    /\ p.pos.y = blocks[i].pos.y - p.height - Epsilon
    /\ p.pos.x <= blocks[i].pos.x + blocks[i].w
    /\ p.pos.x + p.width >= blocks[i].pos.x

\* C33 as stated: a body that has landed on the top of a solid block and
\* that no key moves sideways stays there: the next frame without input,
\* and so every later one, ends with the same pos.y and with vel.y = 0, and
\* a jump issued after it is honoured.
C33_LandedBodyStays ==
    (pc = 0 /\ player.vel.x = 0) =>
        \A i \in solidIndices :
            landedOn(player, i) =>
                LET q == update(player, blocks)
                IN  /\ q.pos.y = player.pos.y
                    /\ q.vel.y = 0
                    /\ jump(q).vel.y = jumpFactor


\* C34: in the earlier iterations, where render moves the body by its
\* velocity, clamps it to the four sides of the canvas and then applies
\* gravity, the body is inside the canvas at the end of every frame and
\* between frames, whatever keys are pressed and released:
\* 0 <= pos.x <= worldWidth - width and 0 <= pos.y <= worldHeight - height.
C34_InsideCanvas ==
    call.op = "earlier" =>
        /\ 0 <= player.pos.x
        /\ player.pos.x <= canvasWidth - player.width
        /\ 0 <= player.pos.y
        /\ player.pos.y <= canvasHeight - player.height

\* a frame has ended with the body in the upper right corner of the canvas,
\* where a jump and a move to the right have carried it and the clamp has
\* stopped it on both sides
C34_Witness ==
    /\ call.op = "earlier"
    /\ player.pos.x = canvasWidth - player.width
    /\ player.pos.y = 0
    /\ player.vel.x = 0
    /\ player.vel.y = gravity.y


\* C35 as stated: after any sequence of animate, moveFrame and swapSprite
\* calls the sprite of the player has 0 <= currentFrame <= maxFrame - 1, so
\* that its crop box lies inside the sprite sheet it is cut from.
C35_FrameInSheet ==
    "sprite" \in DOMAIN player =>
        /\ 0 <= player.sprite.currentFrame
        /\ player.sprite.currentFrame <= player.sprite.maxFrame - 1


====
